---- MODULE Spec2Model ----
(***************************************************************************)
(* Model of the fitness-challenge store (src/database/db_manager.py) and   *)
(* of the aggregation queries over it (src/analytics/data_processing.py).  *)
(*                                                                         *)
(* Units.  REAL columns are kept as scaled integers: value and             *)
(* points_per_unit in tenths (0.3 points per rep is 3), points_calculated  *)
(* and every sum of points in hundredths (50.0 points is 5000).            *)
(* Percentiles are in tenths of a percent (33.3 is 333).                   *)
(*                                                                         *)
(* Keys.  Every table has an INTEGER PRIMARY KEY AUTOINCREMENT and no row  *)
(* is ever deleted, so a table is a sequence and the key of a row is its   *)
(* position.  The schema declares foreign keys but no connection turns     *)
(* PRAGMA foreign_keys on, so SQLite does not enforce them.                *)
(***************************************************************************)
EXTENDS Integers, Sequences, FiniteSets, TLC

VARIABLES users, teams, sports, performances, last, cache, now, session

vars == <<users, teams, sports, performances, last, cache, now, session>>

-----------------------------------------------------------------------------
(* Bounds of the model *)

MaxUsers == 3
MaxPerfs == 3
MaxTeams == 1
MaxLimit == 4

-----------------------------------------------------------------------------
(* SQL NULL / Python None *)

NULL == [null |-> TRUE]

Val(v) == [null |-> FALSE, v |-> v]

\* a nullable key column (users.team_id): keys start at 1, 0 stands for NULL
NULL_ID == 0

\* st.cache_data keeps one cache per decorated function, keyed by the
\* arguments of the call (the _self argument is not part of the key)
EmptyCache ==
  [get_leaderboard_data   |-> << >>,
   get_user_progress_data |-> << >>]

\* SessionManager.__init__ on a fresh st.session_state
NewSession ==
  [logged_in |-> FALSE, user_id |-> NULL, username |-> NULL, user_data |-> NULL]

\* no cached call has been made, the clock is at its origin and nobody is
\* logged in
Unused ==
  /\ cache = EmptyCache
  /\ now = 0
  /\ session = NewSession

-----------------------------------------------------------------------------
(* Inputs *)

\* registration forms: two of them collide on username, two on email
RegForms ==
  { [username |-> "amy", email |-> "amy@x", password |-> "pw", full_name |-> "A",
     gender |-> NULL, age_group |-> NULL, location |-> NULL],
    [username |-> "bob", email |-> "bob@x", password |-> "pw", full_name |-> "B",
     gender |-> NULL, age_group |-> NULL, location |-> NULL],
    [username |-> "amy", email |-> "bob@x", password |-> "pw", full_name |-> "A",
     gender |-> NULL, age_group |-> NULL, location |-> NULL] }

TeamNames == {"red", "blue"}

\* sport ids offered to add_performance: Running and an id that is not in the
\* catalog
SportIds == {1, 13}

\* performance values in tenths: 1.0 and 5.0
Values == {10, 50}

Dates == {1}

Limits == 1..MaxLimit

-----------------------------------------------------------------------------
(* The sports catalog *)

default_sports ==
  << [sport_name |-> "Running",         unit |-> "km",       points_per_unit |-> 100],
     [sport_name |-> "Cycling",         unit |-> "km",       points_per_unit |-> 30],
     [sport_name |-> "Swimming",        unit |-> "km",       points_per_unit |-> 500],
     [sport_name |-> "Walking",         unit |-> "km",       points_per_unit |-> 50],
     [sport_name |-> "Push-ups",        unit |-> "reps",     points_per_unit |-> 5],
     [sport_name |-> "Sit-ups",         unit |-> "reps",     points_per_unit |-> 3],
     [sport_name |-> "Plank",           unit |-> "minutes",  points_per_unit |-> 20],
     [sport_name |-> "Yoga",            unit |-> "sessions", points_per_unit |-> 150],
     [sport_name |-> "Weight Training", unit |-> "sessions", points_per_unit |-> 200],
     [sport_name |-> "Basketball",      unit |-> "hours",    points_per_unit |-> 120],
     [sport_name |-> "Tennis",          unit |-> "hours",    points_per_unit |-> 150],
     [sport_name |-> "Football/Soccer", unit |-> "hours",    points_per_unit |-> 180] >>

\* INSERT OR IGNORE of one row: sport_name is UNIQUE, a clash skips the row
InsertOrIgnoreSport(tbl, row) ==
  IF \E i \in 1..Len(tbl) : tbl[i].sport_name = row.sport_name
  THEN tbl
  ELSE Append(tbl, row)

RECURSIVE InsertSportsFrom(_, _, _)
InsertSportsFrom(tbl, rows, k) ==
  IF k > Len(rows) THEN tbl
  ELSE InsertSportsFrom(InsertOrIgnoreSport(tbl, rows[k]), rows, k + 1)

\* the for loop of init_default_sports over the table tbl
init_default_sports(tbl) == InsertSportsFrom(tbl, default_sports, 1)

-----------------------------------------------------------------------------
(* Scoring *)

\* variant: the factor is looked up but the raw value is returned
calculate_points_unscaled(tbl, sport_id, value) ==
  IF sport_id \in 1..Len(tbl) THEN value ELSE 0

\* SELECT points_per_unit FROM sports WHERE sport_id = ?; value * factor when
\* the row exists, 0 otherwise
calculate_points(tbl, sport_id, value) ==
  IF sport_id \in 1..Len(tbl)
  THEN value * tbl[sport_id].points_per_unit
  ELSE 0

-----------------------------------------------------------------------------
(* Writes of the store *)

\* DatabaseManager(): CREATE TABLE IF NOT EXISTS keeps the tables, then the
\* default sports are inserted again with INSERT OR IGNORE
init_database ==
  /\ sports' = init_default_sports(sports)
  /\ last' = [op |-> "init_database"]
  /\ UNCHANGED <<users, teams, performances, cache, now, session>>

\* bcrypt.hashpw with a fresh salt: the hash is kept as the password it
\* verifies
hash_password(password) == [bcrypt |-> password]

\* bcrypt.checkpw
verify_password(password, hashed) == hashed = [bcrypt |-> password]

\* INSERT INTO users; username and email are UNIQUE, IntegrityError is raised
\* again after the connection is closed
create_user(form) ==
  IF \E i \in 1..Len(users) :
       \/ users[i].username = form.username
       \/ users[i].email = form.email
  THEN /\ last' = [op |-> "create_user", error |-> "IntegrityError"]
       /\ UNCHANGED <<users, teams, sports, performances, cache, now, session>>
  ELSE /\ users' = Append(users, [username      |-> form.username,
                                  password_hash |-> hash_password(form.password),
                                  full_name     |-> form.full_name,
                                  email         |-> form.email,
                                  gender        |-> form.gender,
                                  age_group     |-> form.age_group,
                                  location      |-> form.location,
                                  team_id       |-> NULL_ID,
                                  created_at    |-> now,
                                  updated_at    |-> now])
       /\ last' = [op |-> "create_user", error |-> "none",
                   out |-> Len(users) + 1]
       /\ UNCHANGED <<teams, sports, performances, cache, now, session>>

\* the row written by add_performance
NewPerformance(user_id, sport_id, value, date_recorded) ==
  [user_id           |-> user_id,
   sport_id          |-> sport_id,
   value             |-> value,
   points_calculated |-> calculate_points(sports, sport_id, value),
   date_recorded     |-> date_recorded]
\* variant: recording a performance clears the cached aggregates
add_performance_invalidating(user_id, sport_id, value, date_recorded) ==
  /\ performances' = Append(performances,
                        NewPerformance(user_id, sport_id, value, date_recorded))
  /\ last' = [op |-> "add_performance", error |-> "none",
              user_id |-> user_id, sport_id |-> sport_id, value |-> value,
              out |-> Len(performances) + 1]
  /\ cache' = EmptyCache
  /\ UNCHANGED <<users, teams, sports, now, session>>


\* variant: the write also recomputes the points of the user's earlier rows
\* from the new value
add_performance_rebasing(user_id, sport_id, value, date_recorded) ==
  /\ performances' =
       Append([i \in 1..Len(performances) |->
                 IF performances[i].user_id = user_id
                 THEN [performances[i] EXCEPT !.points_calculated =
                         calculate_points(sports, performances[i].sport_id, value)]
                 ELSE performances[i]],
              NewPerformance(user_id, sport_id, value, date_recorded))
  /\ last' = [op |-> "add_performance", error |-> "none",
              user_id |-> user_id, sport_id |-> sport_id, value |-> value,
              out |-> Len(performances) + 1]
  /\ UNCHANGED <<users, teams, sports, cache, now, session>>

add_performance(user_id, sport_id, value, date_recorded) ==
  /\ performances' = Append(performances,
                            NewPerformance(user_id, sport_id, value, date_recorded))
  /\ last' = [op |-> "add_performance", error |-> "none",
              user_id |-> user_id, sport_id |-> sport_id, value |-> value,
              out |-> Len(performances) + 1]
  /\ UNCHANGED <<users, teams, sports, cache, now, session>>

\* INSERT INTO teams; team_name is UNIQUE
create_team(team_name, created_by) ==
  IF \E i \in 1..Len(teams) : teams[i].team_name = team_name
  THEN /\ last' = [op |-> "create_team", error |-> "IntegrityError"]
       /\ UNCHANGED <<users, teams, sports, performances, cache, now, session>>
  ELSE /\ teams' = Append(teams, [team_name |-> team_name,
                                  created_by |-> created_by])
       /\ last' = [op |-> "create_team", error |-> "none",
                   out |-> Len(teams) + 1]
       /\ UNCHANGED <<users, sports, performances, cache, now, session>>

\* UPDATE users SET team_id = ?, updated_at = CURRENT_TIMESTAMP
\* WHERE user_id = ?
join_team(user_id, team_id) ==
  /\ users' = [i \in 1..Len(users) |->
                 IF i = user_id
                 THEN [users[i] EXCEPT !.team_id = team_id, !.updated_at = now]
                 ELSE users[i]]
  /\ last' = [op |-> "join_team", error |-> "none",
              user_id |-> user_id, team_id |-> team_id]
  /\ UNCHANGED <<teams, sports, performances, cache, now, session>>

-----------------------------------------------------------------------------
(* SQL helpers *)

Min(a, b) == IF a <= b THEN a ELSE b

\* indices (primary keys) of the performances of one user
PerfsOfUser(user_id) ==
  {i \in 1..Len(performances) : performances[i].user_id = user_id}

\* the JOIN sports s ON p.sport_id = s.sport_id keeps a performance only when
\* its sport row exists
HasSport(i) == performances[i].sport_id \in 1..Len(sports)

RECURSIVE SumPoints(_)
SumPoints(I) ==
  IF I = {} THEN 0
  ELSE LET i == CHOOSE x \in I : TRUE
       IN  performances[i].points_calculated + SumPoints(I \ {i})

RECURSIVE SumValue(_)
SumValue(I) ==
  IF I = {} THEN 0
  ELSE LET i == CHOOSE x \in I : TRUE
       IN  performances[i].value + SumValue(I \ {i})

\* SUM(...) over a group: NULL when the group has no non-NULL value
SqlSumPoints(I) == IF I = {} THEN NULL ELSE Val(SumPoints(I))

\* AVG(...) over a group, kept as the exact fraction num/den
SqlAvgPoints(I) ==
  IF I = {} THEN NULL
  ELSE Val([num |-> SumPoints(I), den |-> Cardinality(I)])

SqlAvgValue(I) ==
  IF I = {} THEN NULL
  ELSE Val([num |-> SumValue(I), den |-> Cardinality(I)])

\* MAX / MIN of a column over a group
SqlMaxDate(I) ==
  IF I = {} THEN NULL
  ELSE Val(CHOOSE d \in {performances[i].date_recorded : i \in I} :
             \A i \in I : performances[i].date_recorded <= d)

SqlMinDate(I) ==
  IF I = {} THEN NULL
  ELSE Val(CHOOSE d \in {performances[i].date_recorded : i \in I} :
             \A i \in I : performances[i].date_recorded >= d)

SqlMaxValue(I) ==
  IF I = {} THEN NULL
  ELSE Val(CHOOSE v \in {performances[i].value : i \in I} :
             \A i \in I : performances[i].value <= v)

COALESCE(x, d) == IF x.null THEN d ELSE x.v

\* comparison of two fractions with positive denominators
FracLess(a, b) == a.num * b.den < b.num * a.den

\* LEFT JOIN teams t ON u.team_id = t.team_id, column t.team_name
TeamNameOf(user_id) ==
  IF users[user_id].team_id \in 1..Len(teams)
  THEN Val(teams[users[user_id].team_id].team_name)
  ELSE NULL

\* ORDER BY: rows arrive in group order; before holds the pairs <<j, i>> of
\* positions such that row j precedes row i in the strict order of the ORDER BY
\* terms.  SQLite's sorter keeps rows with equal terms in arrival order, so
\* the result is the stable sort of rows.
OrderBy(rows, before) ==
  LET n == Len(rows)
      pos(i) == 1 + Cardinality({j \in 1..n :
                      \/ <<j, i>> \in before
                      \/ (<<i, j>> \notin before /\ j < i)})
  IN  [k \in 1..n |-> rows[CHOOSE i \in 1..n : pos(i) = k]]

\* all pairs of positions of rows
Pairs(rows) == (1..Len(rows)) \X (1..Len(rows))

\* variant: one row short
Limit_one_short(rows, limit) ==
  IF limit < 0 THEN rows ELSE SubSeq(rows, 1, Min(limit - 1, Len(rows)))

\* LIMIT ?: a negative limit means no limit
Limit(rows, limit) ==
  IF limit < 0 THEN rows ELSE SubSeq(rows, 1, Min(limit, Len(rows)))

\* the elements of a set of integers in ascending order
Ascending(S) ==
  [k \in 1..Cardinality(S) |->
     CHOOSE d \in S : Cardinality({e \in S : e < d}) = k - 1]

-----------------------------------------------------------------------------
(* get_leaderboard_data *)

\* variant: COALESCE(AVG(p.points_calculated), 0)
LeaderboardGroup_coalesce_avg(user_id) ==
  LET I == PerfsOfUser(user_id)
  IN  [user_id                 |-> user_id,
       username                |-> users[user_id].username,
       team_name               |-> TeamNameOf(user_id),
       total_points            |-> COALESCE(SqlSumPoints(I), 0),
       total_activities        |-> Cardinality(I),
       last_activity_date      |-> SqlMaxDate(I),
       avg_points_per_activity |->
         Val(COALESCE(SqlAvgPoints(I), [num |-> 0, den |-> 1]))]

\* one group per user of FROM users u LEFT JOIN performances p
LeaderboardGroup(user_id) ==
  LET I == PerfsOfUser(user_id)
  IN  [user_id                 |-> user_id,
       username                |-> users[user_id].username,
       team_name               |-> TeamNameOf(user_id),
       total_points            |-> COALESCE(SqlSumPoints(I), 0),
       total_activities        |-> Cardinality(I),
       last_activity_date      |-> SqlMaxDate(I),
       avg_points_per_activity |-> SqlAvgPoints(I)]

\* variant: ORDER BY total_points DESC only
LeaderboardBefore_points_only(a, b) == a.total_points > b.total_points

\* ORDER BY total_points DESC, total_activities DESC
LeaderboardBefore(a, b) ==
  \/ a.total_points > b.total_points
  \/ (a.total_points = b.total_points /\ a.total_activities > b.total_activities)

\* variant: JOIN teams instead of LEFT JOIN teams
leaderboard_query_join_teams(limit) ==
  LET groups == SelectSeq([u \in 1..Len(users) |-> LeaderboardGroup(u)],
                          LAMBDA g : ~g.team_name.null)
  IN  Limit(OrderBy(groups, {q \in Pairs(groups) :
                               LeaderboardBefore(groups[q[1]], groups[q[2]])}),
            limit)

\* variant: JOIN performances instead of LEFT JOIN performances
leaderboard_query_join_performances(limit) ==
  LET groups == SelectSeq([u \in 1..Len(users) |-> LeaderboardGroup(u)],
                          LAMBDA g : g.total_activities > 0)
  IN  Limit(OrderBy(groups, {q \in Pairs(groups) :
                               LeaderboardBefore(groups[q[1]], groups[q[2]])}),
            limit)

leaderboard_query(limit) ==
  LET groups == [u \in 1..Len(users) |-> LeaderboardGroup(u)]
  IN  Limit(OrderBy(groups, {q \in Pairs(groups) :
                               LeaderboardBefore(groups[q[1]], groups[q[2]])}),
            limit)

\* df['rank'] = range(1, len(df) + 1)
leaderboard_df(limit) ==
  LET q == leaderboard_query(limit)
  IN  [k \in 1..Len(q) |->
         [user_id                 |-> q[k].user_id,
          username                |-> q[k].username,
          team_name               |-> q[k].team_name,
          total_points            |-> q[k].total_points,
          total_activities        |-> q[k].total_activities,
          last_activity_date      |-> q[k].last_activity_date,
          avg_points_per_activity |-> q[k].avg_points_per_activity,
          rank                    |-> k]]

get_leaderboard_data(limit) ==
  /\ last' = [op |-> "get_leaderboard_data", error |-> "none",
              limit |-> limit, out |-> leaderboard_df(limit)]
  /\ UNCHANGED <<users, teams, sports, performances, cache, now, session>>

-----------------------------------------------------------------------------
(* get_team_leaderboard *)

MembersOf(team_id) == {u \in 1..Len(users) : users[u].team_id = team_id}

\* variant: COUNT(u.user_id) without DISTINCT counts the joined rows, one per
\* performance of a member and one for a member without performance
TeamGroup_counting_rows(team_id) ==
  LET I == {i \in 1..Len(performances) :
              performances[i].user_id \in MembersOf(team_id)}
      idle == {u \in MembersOf(team_id) : PerfsOfUser(u) = {}}
  IN  [team_id               |-> team_id,
       team_name             |-> teams[team_id].team_name,
       member_count          |-> Cardinality(I) + Cardinality(idle),
       total_team_points     |-> COALESCE(SqlSumPoints(I), 0),
       avg_points_per_member |-> COALESCE(SqlAvgPoints(I), [num |-> 0, den |-> 1]),
       total_team_activities |-> Cardinality(I),
       last_team_activity    |-> SqlMaxDate(I)]

\* variant: the creator of the team is joined as well as its members
TeamGroup_with_creator(team_id) ==
  LET I == {i \in 1..Len(performances) :
              \/ performances[i].user_id \in MembersOf(team_id)
              \/ performances[i].user_id = teams[team_id].created_by}
  IN  [team_id               |-> team_id,
       team_name             |-> teams[team_id].team_name,
       member_count          |-> Cardinality(MembersOf(team_id)),
       total_team_points     |-> COALESCE(SqlSumPoints(I), 0),
       avg_points_per_member |-> COALESCE(SqlAvgPoints(I), [num |-> 0, den |-> 1]),
       total_team_activities |-> Cardinality(I),
       last_team_activity    |-> SqlMaxDate(I)]

\* one group per team of FROM teams t LEFT JOIN users u LEFT JOIN performances p
TeamGroup(team_id) ==
  LET I == {i \in 1..Len(performances) :
              performances[i].user_id \in MembersOf(team_id)}
  IN  [team_id               |-> team_id,
       team_name             |-> teams[team_id].team_name,
       member_count          |-> Cardinality(MembersOf(team_id)),
       total_team_points     |-> COALESCE(SqlSumPoints(I), 0),
       avg_points_per_member |-> COALESCE(SqlAvgPoints(I), [num |-> 0, den |-> 1]),
       total_team_activities |-> Cardinality(I),
       last_team_activity    |-> SqlMaxDate(I)]

\* ORDER BY total_team_points DESC, avg_points_per_member DESC
TeamBefore(a, b) ==
  \/ a.total_team_points > b.total_team_points
  \/ /\ a.total_team_points = b.total_team_points
     /\ FracLess(b.avg_points_per_member, a.avg_points_per_member)

\* variant: JOIN performances instead of LEFT JOIN performances
team_query_join_performances(limit) ==
  LET groups == [t \in 1..Len(teams) |-> TeamGroup(t)]
      having == SelectSeq(groups, LAMBDA g : g.total_team_activities > 0)
  IN  Limit(OrderBy(having, {q \in Pairs(having) :
                               TeamBefore(having[q[1]], having[q[2]])}),
            limit)

\* HAVING member_count > 0
team_query(limit) ==
  LET groups == [t \in 1..Len(teams) |-> TeamGroup(t)]
      having == SelectSeq(groups, LAMBDA g : g.member_count > 0)
  IN  Limit(OrderBy(having, {q \in Pairs(having) :
                               TeamBefore(having[q[1]], having[q[2]])}),
            limit)

\* df['team_rank'] = range(1, len(df) + 1)
team_df(limit) ==
  LET q == team_query(limit)
  IN  [k \in 1..Len(q) |->
         [team_id               |-> q[k].team_id,
          team_name             |-> q[k].team_name,
          member_count          |-> q[k].member_count,
          total_team_points     |-> q[k].total_team_points,
          avg_points_per_member |-> q[k].avg_points_per_member,
          total_team_activities |-> q[k].total_team_activities,
          last_team_activity    |-> q[k].last_team_activity,
          team_rank             |-> k]]

get_team_leaderboard(limit) ==
  /\ last' = [op |-> "get_team_leaderboard", error |-> "none",
              limit |-> limit, out |-> team_df(limit)]
  /\ UNCHANGED <<users, teams, sports, performances, cache, now, session>>

-----------------------------------------------------------------------------
(* get_sport_leaderboard *)

\* performances of one user in the sport named sport_name
PerfsOfUserInSport(user_id, sport_name) ==
  {i \in PerfsOfUser(user_id) :
     HasSport(i) /\ sports[performances[i].sport_id].sport_name = sport_name}

\* variant: the aggregates run over all performances of the user
SportGroup_all_sports(user_id, sport_name) ==
  LET I == PerfsOfUser(user_id)
  IN  [user_id           |-> user_id,
       username          |-> users[user_id].username,
       sport_name        |-> sport_name,
       total_performance |-> SumValue(I),
       total_points      |-> SumPoints(I),
       activity_count    |-> Cardinality(I),
       avg_performance   |-> SqlAvgValue(I),
       best_performance  |-> SqlMaxValue(I),
       last_activity     |-> SqlMaxDate(I)]

\* one group per user with a joined row: users u JOIN performances p JOIN
\* sports s WHERE s.sport_name = ?
SportGroup(user_id, sport_name) ==
  LET I == PerfsOfUserInSport(user_id, sport_name)
  IN  [user_id           |-> user_id,
       username          |-> users[user_id].username,
       sport_name        |-> sport_name,
       total_performance |-> SumValue(I),
       total_points      |-> SumPoints(I),
       activity_count    |-> Cardinality(I),
       avg_performance   |-> SqlAvgValue(I),
       best_performance  |-> SqlMaxValue(I),
       last_activity     |-> SqlMaxDate(I)]

\* ORDER BY total_points DESC, total_performance DESC
SportBefore(a, b) ==
  \/ a.total_points > b.total_points
  \/ (a.total_points = b.total_points /\ a.total_performance > b.total_performance)

sport_query(sport_name, limit) ==
  LET joined == SelectSeq([u \in 1..Len(users) |-> u],
                          LAMBDA u : PerfsOfUserInSport(u, sport_name) # {})
      groups == [k \in 1..Len(joined) |-> SportGroup(joined[k], sport_name)]
  IN  Limit(OrderBy(groups, {q \in Pairs(groups) :
                               SportBefore(groups[q[1]], groups[q[2]])}),
            limit)

\* df['sport_rank'] = range(1, len(df) + 1)
sport_df(sport_name, limit) ==
  LET q == sport_query(sport_name, limit)
  IN  [k \in 1..Len(q) |->
         [user_id           |-> q[k].user_id,
          username          |-> q[k].username,
          sport_name        |-> q[k].sport_name,
          total_performance |-> q[k].total_performance,
          total_points      |-> q[k].total_points,
          activity_count    |-> q[k].activity_count,
          avg_performance   |-> q[k].avg_performance,
          best_performance  |-> q[k].best_performance,
          last_activity     |-> q[k].last_activity,
          sport_rank        |-> k]]

get_sport_leaderboard(sport_name, limit) ==
  /\ last' = [op |-> "get_sport_leaderboard", error |-> "none",
              sport_name |-> sport_name, limit |-> limit,
              out |-> sport_df(sport_name, limit)]
  /\ UNCHANGED <<users, teams, sports, performances, cache, now, session>>

-----------------------------------------------------------------------------
(* get_user_progress_data *)

\* user_query: WHERE u.user_id = ? GROUP BY u.user_id; no row for an id that
\* is not registered.  SUM and AVG are not wrapped in COALESCE here.
user_stats(user_id) ==
  IF user_id \notin 1..Len(users) THEN << >>
  ELSE LET I == PerfsOfUser(user_id)
       IN  << [username                |-> users[user_id].username,
               team_name               |-> TeamNameOf(user_id),
               first_activity_date     |-> SqlMinDate(I),
               last_activity_date      |-> SqlMaxDate(I),
               total_activities        |-> Cardinality(I),
               total_points            |-> SqlSumPoints(I),
               avg_points_per_activity |-> SqlAvgPoints(I)] >>

\* variant: the cumulative column is the plain SUM of the group, without the
\* window
daily_progress_no_window(user_id) ==
  LET I     == PerfsOfUser(user_id)
      days  == Ascending({performances[i].date_recorded : i \in I})
      On(d) == {i \in I : performances[i].date_recorded = d}
  IN  [k \in 1..Len(days) |->
         [activity_date     |-> days[k],
          daily_activities  |-> Cardinality(On(days[k])),
          daily_points      |-> SumPoints(On(days[k])),
          cumulative_points |-> SumPoints(On(days[k]))]]

\* variant: the query without WHERE p.user_id = ?
daily_progress_all_users(user_id) ==
  LET I     == 1..Len(performances)
      days  == Ascending({performances[i].date_recorded : i \in I})
      On(d) == {i \in I : performances[i].date_recorded = d}
      UpTo(d) == {i \in I : performances[i].date_recorded <= d}
  IN  [k \in 1..Len(days) |->
         [activity_date     |-> days[k],
          daily_activities  |-> Cardinality(On(days[k])),
          daily_points      |-> SumPoints(On(days[k])),
          cumulative_points |-> SumPoints(UpTo(days[k]))]]

\* daily_query: GROUP BY DATE(p.date_recorded) ORDER BY activity_date, with the
\* window SUM(SUM(points)) OVER (ORDER BY DATE(p.date_recorded))
daily_progress(user_id) ==
  LET I     == PerfsOfUser(user_id)
      days  == Ascending({performances[i].date_recorded : i \in I})
      On(d) == {i \in I : performances[i].date_recorded = d}
      UpTo(d) == {i \in I : performances[i].date_recorded <= d}
  IN  [k \in 1..Len(days) |->
         [activity_date     |-> days[k],
          daily_activities  |-> Cardinality(On(days[k])),
          daily_points      |-> SumPoints(On(days[k])),
          cumulative_points |-> SumPoints(UpTo(days[k]))]]

\* sport_query: performances p JOIN sports s, GROUP BY s.sport_id
SportBreakdownGroup(user_id, sport_id) ==
  LET I == {i \in PerfsOfUser(user_id) : performances[i].sport_id = sport_id}
  IN  [sport_name        |-> sports[sport_id].sport_name,
       unit              |-> sports[sport_id].unit,
       activity_count    |-> Cardinality(I),
       total_performance |-> SumValue(I),
       total_points      |-> SumPoints(I),
       avg_performance   |-> SqlAvgValue(I),
       best_performance  |-> SqlMaxValue(I)]

\* ORDER BY total_points DESC
BreakdownBefore(a, b) == a.total_points > b.total_points

sport_breakdown(user_id) ==
  LET used == Ascending({performances[i].sport_id :
                           i \in {j \in PerfsOfUser(user_id) : HasSport(j)}})
      groups == [k \in 1..Len(used) |-> SportBreakdownGroup(user_id, used[k])]
  IN  OrderBy(groups, {q \in Pairs(groups) :
                         BreakdownBefore(groups[q[1]], groups[q[2]])})

\* number of rows of recent_query (LIMIT 10)
RecentLimit == 10

\* ORDER BY p.date_recorded DESC
RecentBefore(a, b) == a.date > b.date

\* recent_query: performances p JOIN sports s WHERE p.user_id = ?
recent_activities(user_id) ==
  LET mine == Ascending({i \in PerfsOfUser(user_id) : HasSport(i)})
      rows == [k \in 1..Len(mine) |->
                 [performance_id |-> mine[k],
                  date       |-> performances[mine[k]].date_recorded,
                  sport_name |-> sports[performances[mine[k]].sport_id].sport_name,
                  unit       |-> sports[performances[mine[k]].sport_id].unit,
                  value      |-> performances[mine[k]].value,
                  points     |-> performances[mine[k]].points_calculated]]
  IN  Limit(OrderBy(rows, {q \in Pairs(rows) :
                             RecentBefore(rows[q[1]], rows[q[2]])}),
            RecentLimit)

get_user_progress_data(user_id) ==
  /\ last' = [op |-> "get_user_progress_data", error |-> "none",
              user_id |-> user_id,
              out |-> [user_stats        |-> user_stats(user_id),
                       daily_progress    |-> daily_progress(user_id),
                       sport_breakdown   |-> sport_breakdown(user_id),
                       recent_activities |-> recent_activities(user_id)]]
  /\ UNCHANGED <<users, teams, sports, performances, cache, now, session>>

-----------------------------------------------------------------------------
(* get_user_ranking *)

\* user_points_query: an aggregate without GROUP BY always returns one row
user_points_query(user_id) == COALESCE(SqlSumPoints(PerfsOfUser(user_id)), 0)

\* variant: ORDER BY total_points ASC
AllPointsBefore_ascending(a, b) == a.total_points < b.total_points

\* ORDER BY total_points DESC
AllPointsBefore(a, b) == a.total_points > b.total_points

\* all_points_query: FROM users u LEFT JOIN performances p GROUP BY u.user_id
all_points_query ==
  LET groups == [u \in 1..Len(users) |->
                   [user_id      |-> u,
                    total_points |-> COALESCE(SqlSumPoints(PerfsOfUser(u)), 0)]]
  IN  OrderBy(groups, {q \in Pairs(groups) :
                         AllPointsBefore(groups[q[1]], groups[q[2]])})

\* variant: the percentile is cut after the first decimal
RoundTenths_truncating(num, den) == (1000 * num) \div den

\* round(x, 1) of x = 100 * num / den, in tenths: nearest tenth, a tie goes to
\* the even tenth
RoundTenths(num, den) ==
  LET q == (1000 * num) \div den
      r == (1000 * num) % den
  IN  IF 2 * r > den \/ (2 * r = den /\ q % 2 = 1) THEN q + 1 ELSE q

\* variant: an id without a row gets the result of the empty-frame branch,
\* whose total_users is 0
user_ranking_empty_frame(user_id) ==
  LET all  == all_points_query
      n    == Len(all)
      hits == {k \in 1..n : all[k].user_id = user_id}
  IN  IF hits = {}
      THEN [rank |-> 0, total_users |-> 0, percentile |-> 0, user_points |-> 0]
      ELSE LET user_rank == CHOOSE k \in hits : TRUE
           IN  [rank        |-> user_rank,
                total_users |-> n,
                percentile  |-> RoundTenths(n - user_rank + 1, n),
                user_points |-> user_points_query(user_id)]

\* the dictionary returned by get_user_ranking
user_ranking(user_id) ==
  LET all  == all_points_query
      n    == Len(all)
      hits == {k \in 1..n : all[k].user_id = user_id}
  IN  IF hits = {}
      THEN [rank |-> 0, total_users |-> n, percentile |-> 0,
            user_points |-> user_points_query(user_id)]
      ELSE LET user_rank == CHOOSE k \in hits : TRUE
           IN  [rank        |-> user_rank,
                total_users |-> n,
                percentile  |-> RoundTenths(n - user_rank + 1, n),
                user_points |-> user_points_query(user_id)]

get_user_ranking(user_id) ==
  /\ last' = [op |-> "get_user_ranking", error |-> "none",
              user_id |-> user_id, out |-> user_ranking(user_id)]
  /\ UNCHANGED <<users, teams, sports, performances, cache, now, session>>

-----------------------------------------------------------------------------
(* get_available_sports *)

\* the names of the default catalog in the order of ORDER BY sport_name
\* (BINARY collation)
SportNameOrder ==
  << "Basketball", "Cycling", "Football/Soccer", "Plank", "Push-ups",
     "Running", "Sit-ups", "Swimming", "Tennis", "Walking",
     "Weight Training", "Yoga" >>

\* SELECT sport_name FROM sports ORDER BY sport_name
available_sports ==
  SelectSeq(SportNameOrder,
            LAMBDA name : \E s \in 1..Len(sports) : sports[s].sport_name = name)

get_available_sports ==
  /\ last' = [op |-> "get_available_sports", error |-> "none",
              out |-> available_sports]
  /\ UNCHANGED <<users, teams, sports, performances, cache, now, session>>

-----------------------------------------------------------------------------
(* get_weekly_progress *)

(* Dates are day numbers: day 1 is Monday 2024-01-01, so day 366 is Tuesday  *)
(* 2024-12-31 and day 367 is Wednesday 2025-01-01.  The clock now counts the *)
(* seconds since the start of day 1.                                         *)
FirstYear == 2024
SecondsPerDay == 86400
DaysPerWeek == 7

IsLeapYear(y) == (y % 4 = 0 /\ y % 100 # 0) \/ y % 400 = 0

DaysInYear(y) == IF IsLeapYear(y) THEN 366 ELSE 365

\* year and zero-based day of the year of day d, counting on from year y
RECURSIVE YearAndDay(_, _)
YearAndDay(d, y) ==
  IF d <= DaysInYear(y) THEN [year |-> y, yday |-> d - 1]
  ELSE YearAndDay(d - DaysInYear(y), y + 1)

\* day of the week of day d, Monday = 0
Weekday(d) == (d - 1) % DaysPerWeek

\* strftime('%Y-%W', d): the year and the week of the year, where week 1
\* starts on the first Monday of the year and the days before it are week 0
StrftimeYW(d) ==
  LET yd == YearAndDay(d, FirstYear)
  IN  [year |-> yd.year,
       week |-> (yd.yday + DaysPerWeek - Weekday(d)) \div DaysPerWeek]

\* order of the strings 'YYYY-WW'
WeekLess(a, b) == a.year < b.year \/ (a.year = b.year /\ a.week < b.week)

\* datetime.now() as a date
Today == now \div SecondsPerDay + 1

\* start_date = end_date - timedelta(weeks=weeks), formatted '%Y-%m-%d'
WindowStart(weeks) == Today - DaysPerWeek * weeks

\* WHERE p.user_id = ? AND p.date_recorded >= ?
\* GROUP BY strftime('%Y-%W', p.date_recorded) ORDER BY week
weekly_progress(user_id, weeks) ==
  LET I == {i \in PerfsOfUser(user_id) :
              performances[i].date_recorded >= WindowStart(weeks)}
      keys == {StrftimeYW(performances[i].date_recorded) : i \in I}
      In(w) == {i \in I : StrftimeYW(performances[i].date_recorded) = w}
      ordered == [k \in 1..Cardinality(keys) |->
                    CHOOSE w \in keys :
                      Cardinality({v \in keys : WeekLess(v, w)}) = k - 1]
  IN  [k \in 1..Len(ordered) |->
         [week                    |-> ordered[k],
          weekly_activities       |-> Cardinality(In(ordered[k])),
          weekly_points           |-> SumPoints(In(ordered[k])),
          avg_points_per_activity |-> SqlAvgPoints(In(ordered[k]))]]

\* variant: the call also deletes the performances older than the window
get_weekly_progress_pruning(user_id, weeks) ==
  /\ last' = [op |-> "get_weekly_progress", error |-> "none",
              user_id |-> user_id, weeks |-> weeks,
              out |-> weekly_progress(user_id, weeks)]
  /\ performances' = SelectSeq(performances,
                        LAMBDA p : p.date_recorded >= WindowStart(weeks))
  /\ UNCHANGED <<users, teams, sports, cache, now, session>>

get_weekly_progress(user_id, weeks) ==
  /\ last' = [op |-> "get_weekly_progress", error |-> "none",
              user_id |-> user_id, weeks |-> weeks,
              out |-> weekly_progress(user_id, weeks)]
  /\ UNCHANGED <<users, teams, sports, performances, cache, now, session>>

-----------------------------------------------------------------------------
(* PersonalProgressTracker: the activity calendar of the personal dashboard *)

\* daily_progress.sort_values('activity_date', ascending=False)
SortByDateDescending(rows) ==
  [k \in 1..Len(rows) |->
     rows[CHOOSE j \in 1..Len(rows) :
            Cardinality({i \in 1..Len(rows) :
               \/ rows[i].activity_date > rows[j].activity_date
               \/ rows[i].activity_date = rows[j].activity_date /\ i < j}) = k - 1]]

\* the loop over the sorted rows: count rows until one has no activity
RECURSIVE CountWhileActive(_, _)
CountWhileActive(rows, k) ==
  IF k > Len(rows) THEN 0
  ELSE IF rows[k].daily_activities > 0
       THEN 1 + CountWhileActive(rows, k + 1)
       ELSE 0

\* the metrics of _render_activity_calendar; nothing is shown for an empty
\* daily rollup
render_activity_calendar(daily) ==
  IF daily = << >> THEN << >>
  ELSE LET active_days == Cardinality({k \in 1..Len(daily) :
                                         daily[k].daily_activities > 0})
           total_days  == Len(daily)
       IN  << [current_streak |-> CountWhileActive(SortByDateDescending(daily), 1),
               longest_streak |-> active_days,
               consistency    |-> IF total_days > 0
                                  THEN RoundTenths(active_days, total_days)
                                  ELSE 0] >>

\* weeks=12 in _render_progress_charts
DashboardWeeks == 12

\* progress_data['user_stats'].iloc[0].name: the name of the first row of a
\* frame read by read_sql_query is its index label, 0; an empty frame gives 1
weekly_user_id(stats) == IF stats # << >> THEN 0 ELSE 1

\* the weekly data of _render_progress_charts
render_progress_charts(stats) ==
  weekly_progress(weekly_user_id(stats), DashboardWeeks)

\* render_personal_dashboard stops with a warning when user_stats is empty,
\* otherwise it renders its sections from one progress snapshot
render_personal_dashboard(user_id) ==
  /\ last' = [op |-> "render_personal_dashboard", error |-> "none",
              user_id |-> user_id,
              out |-> IF user_stats(user_id) = << >>
                      THEN [warning           |-> TRUE,
                            weekly_data       |-> << >>,
                            activity_calendar |-> << >>]
                      ELSE [warning           |-> FALSE,
                            weekly_data       |->
                              render_progress_charts(user_stats(user_id)),
                            activity_calendar |->
                              render_activity_calendar(daily_progress(user_id))]]
  /\ UNCHANGED <<users, teams, sports, performances, cache, now, session>>

-----------------------------------------------------------------------------
(* The store from a fresh database: every operation of DatabaseManager and   *)
(* every aggregation read                                                    *)

\* cap on the performances table in Spec
MaxStorePerfs == 2

SportNames == {"Running", "Chess"}

\* ids passed to the per-user reads: the registered users and one more
UserIdInputs == 1..(Len(users) + 1)

Init ==
  /\ users = << >>
  /\ teams = << >>
  /\ sports = init_default_sports(<< >>)
  /\ performances = << >>
  /\ last = [op |-> "init_database"]
  /\ Unused

InitDatabase == init_database

CreateUser ==
  \E form \in RegForms :
    /\ \/ Len(users) < MaxUsers
       \/ \E i \in 1..Len(users) :
            users[i].username = form.username \/ users[i].email = form.email
    /\ create_user(form)

AddPerformance ==
  /\ Len(performances) < MaxStorePerfs
  /\ \E user_id \in 1..Len(users), sport_id \in SportIds,
        value \in Values, date_recorded \in Dates :
       add_performance(user_id, sport_id, value, date_recorded)

CreateTeam ==
  \E team_name \in TeamNames, created_by \in 1..Len(users) :
    /\ \/ Len(teams) < MaxTeams
       \/ \E i \in 1..Len(teams) : teams[i].team_name = team_name
    /\ create_team(team_name, created_by)

JoinTeam ==
  \E user_id \in 1..Len(users), team_id \in {NULL_ID} \cup (1..Len(teams)) :
    join_team(user_id, team_id)

GetLeaderboardData == \E limit \in Limits : get_leaderboard_data(limit)

GetTeamLeaderboard == \E limit \in Limits : get_team_leaderboard(limit)

GetSportLeaderboard ==
  \E sport_name \in SportNames, limit \in Limits :
    get_sport_leaderboard(sport_name, limit)

GetUserProgressData == \E user_id \in UserIdInputs : get_user_progress_data(user_id)

GetUserRanking == \E user_id \in UserIdInputs : get_user_ranking(user_id)

\* the aggregation reads, on the whole tables
StoreRead ==
  \/ get_leaderboard_data(MaxLimit)
  \/ get_team_leaderboard(MaxLimit)
  \/ get_sport_leaderboard("Running", MaxLimit)
  \/ \E user_id \in 1..Len(users) : get_user_progress_data(user_id)
  \/ \E user_id \in 1..Len(users) : get_user_ranking(user_id)

Next ==
  \/ InitDatabase
  \/ CreateUser
  \/ AddPerformance
  \/ CreateTeam
  \/ JoinTeam
  \/ StoreRead

Spec == Init /\ [][Next]_vars

-----------------------------------------------------------------------------
(* The leaderboards over a populated store: the users and their teams are    *)
(* already registered, performances are recorded and the aggregations read   *)

BoardUsernames == <<"amy", "bob", "cal", "dan", "eve", "fay">>

BoardEmails == <<"amy@x", "bob@x", "cal@x", "dan@x", "eve@x", "fay@x">>

BoardTeams ==
  << [team_name |-> "red", created_by |-> 1],
     [team_name |-> "blue", created_by |-> 1] >>

\* team memberships of n users: nobody in a team, or user 1 alone in the
\* first team and the others in the second
BoardMemberships(n) ==
  { [u \in 1..n |-> NULL_ID],
    [u \in 1..n |-> IF u = 1 THEN 1 ELSE 2] }

BoardUsers(n, team_of) ==
  [u \in 1..n |-> [username      |-> BoardUsernames[u],
                   password_hash |-> hash_password("pw"),
                   full_name     |-> BoardUsernames[u],
                   email         |-> BoardEmails[u],
                   gender        |-> NULL,
                   age_group     |-> NULL,
                   location      |-> NULL,
                   team_id       |-> team_of[u],
                   created_at    |-> 0,
                   updated_at    |-> 0]]

\* the population of the ranking scenario: five users whose only performances
\* are runs of 10.0, 8.0, 8.0 and 5.0 km, in any assignment to the users
\* values of the runs in tenths of a km, 0 for the user without performance
ScenarioKm == <<100, 80, 80, 50, 0>>

ScenarioSize == Len(ScenarioKm)

ScenarioAssignments ==
  {f \in [1..ScenarioSize -> 1..ScenarioSize] :
     \A a, b \in 1..ScenarioSize : a # b => f[a] # f[b]}

ScenarioPerformances(f) ==
  LET runners == Ascending({u \in 1..ScenarioSize : ScenarioKm[f[u]] > 0})
  IN  [k \in 1..Len(runners) |->
         [user_id           |-> runners[k],
          sport_id          |-> 1,
          value             |-> ScenarioKm[f[runners[k]]],
          points_calculated |-> calculate_points(init_default_sports(<< >>), 1,
                                                 ScenarioKm[f[runners[k]]]),
          date_recorded     |-> 1]]

BoardInit ==
  /\ sports = init_default_sports(<< >>)
  /\ last = [op |-> "init_database"]
  /\ Unused
  /\ \/ /\ \E n \in 0..MaxUsers : \E team_of \in BoardMemberships(n) :
             users = BoardUsers(n, team_of)
        /\ teams = IF users = << >> THEN << >> ELSE BoardTeams
        /\ performances = << >>
     \/ /\ users = BoardUsers(ScenarioSize, [u \in 1..ScenarioSize |-> NULL_ID])
        /\ teams = << >>
        /\ \E f \in ScenarioAssignments : performances = ScenarioPerformances(f)

BoardSportIds == {1, 4}

BoardValues == {10}

BoardAddPerformance ==
  /\ Len(performances) < MaxPerfs
  /\ \E user_id \in 1..Len(users), sport_id \in BoardSportIds,
        value \in BoardValues, date_recorded \in Dates :
       add_performance(user_id, sport_id, value, date_recorded)

NextBoard ==
  \/ BoardAddPerformance
  \/ GetLeaderboardData
  \/ GetTeamLeaderboard
  \/ GetSportLeaderboard
  \/ GetUserProgressData
  \/ GetUserRanking

SpecBoard == BoardInit /\ [][NextBoard]_vars

-----------------------------------------------------------------------------
(* Properties of the scoring and of the store *)

Registered(user_id) == user_id \in 1..Len(users)

InCatalog(sport_id) == sport_id \in 1..Len(sports)

\* C1: a performance recorded for a sport of the catalog stores
\* points_calculated = value * points_per_unit of that sport, unrounded;
\* Running (10.0 per km) with value 5.0 stores exactly 50.0
C1_PointsAreValueTimesFactor ==
  (last.op = "add_performance" /\ InCatalog(last.sport_id)) =>
     /\ last.error = "none"
     /\ performances[last.out].value = last.value
     /\ performances[last.out].points_calculated
          = last.value * sports[last.sport_id].points_per_unit
     /\ (sports[last.sport_id].sport_name = "Running" /\ last.value = 50
           => performances[last.out].points_calculated = 5000)

C1_Witness ==
  /\ last.op = "add_performance"
  /\ last.sport_id = 1
  /\ last.value = 50
  /\ performances[last.out].points_calculated = 5000

\* C2: recording a performance for a sport id that is not in the catalog is
\* rejected with an error and no row with such a sport id is ever stored
C2_UnknownSportRejected ==
  /\ (last.op = "add_performance" /\ ~InCatalog(last.sport_id))
        => last.error # "none"
  /\ \A i \in 1..Len(performances) : InCatalog(performances[i].sport_id)

\* C3: no step of the store changes the points_calculated of a performance
\* that is already written
C3_PointsImmutable ==
  [][\A i \in 1..Len(performances) :
       /\ i <= Len(performances')
       /\ performances'[i].points_calculated = performances[i].points_calculated]_vars

\* the database is initialised again after a performance was recorded
C3_Witness ==
  /\ Len(performances) >= 1
  /\ last.op = "init_database"

-----------------------------------------------------------------------------
(* Properties of the aggregations *)

Abs(x) == IF x < 0 THEN -x ELSE x

\* (a1, a2) is not below (b1, b2) in the descending lexicographic order
NotBelow(a1, a2, b1, b2) == a1 > b1 \/ (a1 = b1 /\ a2 >= b2)

\* C4: every aggregation that reports the total points of a registered user
\* without performances reports 0
C4_ZeroPerformancesZeroPoints ==
  /\ last.op = "get_leaderboard_data" =>
       \A k \in 1..Len(last.out) :
          PerfsOfUser(last.out[k].user_id) = {} => last.out[k].total_points = 0
  /\ (last.op = "get_user_ranking" /\ Registered(last.user_id)
        /\ PerfsOfUser(last.user_id) = {}) => last.out.user_points = 0
  /\ (last.op = "get_user_progress_data" /\ Registered(last.user_id)
        /\ PerfsOfUser(last.user_id) = {}) =>
       /\ Len(last.out.user_stats) = 1
       /\ last.out.user_stats[1].total_points = Val(0)

\* C5: the rows of each leaderboard are in descending order of its two sort
\* columns and the row at position i carries rank i
C5_LeaderboardsOrderedAndRanked ==
  /\ last.op = "get_leaderboard_data" =>
       /\ \A k \in 1..Len(last.out) : last.out[k].rank = k
       /\ \A k \in 1..(Len(last.out) - 1) :
            NotBelow(last.out[k].total_points, last.out[k].total_activities,
                     last.out[k + 1].total_points, last.out[k + 1].total_activities)
  /\ last.op = "get_team_leaderboard" =>
       /\ \A k \in 1..Len(last.out) : last.out[k].team_rank = k
       /\ \A k \in 1..(Len(last.out) - 1) :
            \/ last.out[k].total_team_points > last.out[k + 1].total_team_points
            \/ /\ last.out[k].total_team_points = last.out[k + 1].total_team_points
               /\ ~FracLess(last.out[k].avg_points_per_member,
                            last.out[k + 1].avg_points_per_member)
  /\ last.op = "get_sport_leaderboard" =>
       /\ \A k \in 1..Len(last.out) : last.out[k].sport_rank = k
       /\ \A k \in 1..(Len(last.out) - 1) :
            NotBelow(last.out[k].total_points, last.out[k].total_performance,
                     last.out[k + 1].total_points, last.out[k + 1].total_performance)

\* two users tied on points, the one with more activities comes first although
\* its user_id is larger
C5_Witness ==
  /\ last.op = "get_leaderboard_data"
  /\ \E k \in 1..(Len(last.out) - 1) :
       /\ last.out[k].total_points = last.out[k + 1].total_points
       /\ last.out[k].total_activities > last.out[k + 1].total_activities
       /\ last.out[k].user_id > last.out[k + 1].user_id

\* C6: with limit >= number of users the overall leaderboard has exactly one
\* row per registered user, users without performances included
C6_EveryUserHasOneRow ==
  (last.op = "get_leaderboard_data" /\ last.limit >= Len(users)) =>
     /\ Len(last.out) = Len(users)
     /\ \A u \in 1..Len(users) :
          Cardinality({k \in 1..Len(last.out) : last.out[k].user_id = u}) = 1

C6_Witness ==
  /\ last.op = "get_leaderboard_data"
  /\ last.limit >= Len(users)
  /\ \E u, w \in 1..Len(users) :
       /\ PerfsOfUser(u) = {}
       /\ PerfsOfUser(w) # {}
       /\ users[u].team_id = NULL_ID
       /\ \E k \in 1..Len(last.out) : last.out[k].user_id = u

\* C7 as stated: with an empty performances table get_leaderboard_data returns
\* an empty result, whatever the number of registered users
C7_EmptyPerformancesEmptyBoard ==
  (last.op = "get_leaderboard_data" /\ performances = << >>) =>
     (last.error = "none" /\ last.out = << >>)

\* C7 amended: with an empty performances table get_leaderboard_data raises no
\* error and returns one row per registered user up to the limit, each with
\* 0 points and 0 activities; it is empty exactly when no user is registered
C7_EmptyPerformancesZeroRows ==
  (last.op = "get_leaderboard_data" /\ performances = << >>) =>
     /\ last.error = "none"
     /\ Len(last.out) = Min(last.limit, Len(users))
     /\ \A k \in 1..Len(last.out) :
          /\ last.out[k].total_points = 0
          /\ last.out[k].total_activities = 0
     /\ (last.out = << >>) <=> (users = << >>)

C7_Witness ==
  /\ last.op = "get_leaderboard_data"
  /\ performances = << >>
  /\ Len(users) >= 2
  /\ Len(last.out) >= 2

\* C8: for a positive limit the overall leaderboard has min(limit, number of
\* users) rows, and they are the first rows of the full ordering: each row is
\* the row of the untruncated leaderboard at that position and no omitted user
\* sorts before an included one
C8_LimitIsPrefix ==
  (last.op = "get_leaderboard_data" /\ last.limit > 0) =>
     /\ Len(last.out) = Min(last.limit, Len(users))
     /\ \A k \in 1..Len(last.out) : last.out[k] = leaderboard_df(Len(users))[k]
     /\ \A u \in 1..Len(users) :
          (\A k \in 1..Len(last.out) : last.out[k].user_id # u) =>
             \A k \in 1..Len(last.out) :
                NotBelow(last.out[k].total_points, last.out[k].total_activities,
                         COALESCE(SqlSumPoints(PerfsOfUser(u)), 0),
                         Cardinality(PerfsOfUser(u)))

C8_Witness ==
  /\ last.op = "get_leaderboard_data"
  /\ last.limit < Len(users)
  /\ Len(last.out) = last.limit
  /\ \E u \in 1..Len(users) :
       /\ PerfsOfUser(u) # {}
       /\ \A k \in 1..Len(last.out) : last.out[k].user_id # u

\* total points of a user, summed over the performances table
TotalOf(user_id) == SumPoints(PerfsOfUser(user_id))

\* the population has the totals 100, 80, 80, 50 and 0
ScenarioTotals ==
  /\ Len(users) = ScenarioSize
  /\ Cardinality({u \in 1..Len(users) : TotalOf(u) = 10000}) = 1
  /\ Cardinality({u \in 1..Len(users) : TotalOf(u) = 8000}) = 2
  /\ Cardinality({u \in 1..Len(users) : TotalOf(u) = 5000}) = 1
  /\ Cardinality({u \in 1..Len(users) : TotalOf(u) = 0}) = 1

\* C9: in one store state the ranks returned for the registered users are
\* pairwise distinct and cover 1..total_users, more points give a smaller rank,
\* users tied on points occupy adjacent ranks in the order of their user_id,
\* and with totals 100, 80, 80, 50, 0 the two users with 80 get ranks 2 and 3
C9_RanksAreAPermutation ==
  (last.op = "get_user_ranking" /\ Registered(last.user_id)) =>
     LET n    == Len(users)
         me   == last.user_id
         R(u) == user_ranking(u).rank
     IN  /\ last.out.total_users = n
         /\ last.out.user_points = TotalOf(me)
         /\ last.out.rank \in 1..n
         /\ {R(u) : u \in 1..n} = 1..n
         /\ \A u \in 1..n : u # me => R(u) # last.out.rank
         /\ \A u \in 1..n :
              /\ TotalOf(u) > TotalOf(me) => R(u) < last.out.rank
              /\ TotalOf(u) < TotalOf(me) => R(u) > last.out.rank
              /\ (TotalOf(u) = TotalOf(me) /\ u < me) => R(u) < last.out.rank
              /\ TotalOf(u) = TotalOf(me) =>
                   \A x \in 1..n :
                      (R(u) < R(x) /\ R(x) < last.out.rank) =>
                         TotalOf(x) = TotalOf(me)
         /\ ScenarioTotals =>
              /\ TotalOf(me) = 10000 => last.out.rank = 1
              /\ TotalOf(me) = 8000 => last.out.rank \in {2, 3}
              /\ TotalOf(me) = 5000 => last.out.rank = 4
              /\ TotalOf(me) = 0 => last.out.rank = 5

\* the second of the two users with 80 points is ranked 3, the first 2
C9_Witness ==
  /\ last.op = "get_user_ranking"
  /\ Registered(last.user_id)
  /\ ScenarioTotals
  /\ last.out.user_points = 8000
  /\ last.out.rank = 3
  /\ \E u \in 1..Len(users) :
       u # last.user_id /\ TotalOf(u) = 8000 /\ user_ranking(u).rank = 2

\* C10 as stated: percentile is exactly (total_users - rank + 1) / total_users
\* * 100, lies in (0, 100], is 100 exactly when rank = 1 and is
\* 100 / total_users when rank = total_users
C10_PercentileExact ==
  (last.op = "get_user_ranking" /\ Registered(last.user_id)) =>
     LET n == last.out.total_users
         r == last.out.rank
         p == last.out.percentile
     IN  /\ p * n = 1000 * (n - r + 1)
         /\ 0 < p /\ p <= 1000
         /\ (p = 1000) <=> (r = 1)
         /\ r = n => p * n = 1000

\* C10 amended: percentile is (total_users - rank + 1) / total_users * 100
\* rounded to one decimal (at most 0.05 away from it), lies in (0, 100], is
\* 100 exactly when rank = 1 and is 100 / total_users rounded to one decimal
\* when rank = total_users
C10_PercentileRounded ==
  (last.op = "get_user_ranking" /\ Registered(last.user_id)) =>
     LET n == last.out.total_users
         r == last.out.rank
         p == last.out.percentile
     IN  /\ 2 * Abs(p * n - 1000 * (n - r + 1)) <= n
         /\ 0 < p /\ p <= 1000
         /\ (p = 1000) <=> (r = 1)
         /\ r = n => 2 * Abs(p * n - 1000) <= n

\* the last of three users is at the 33.3rd percentile
C10_Witness ==
  /\ last.op = "get_user_ranking"
  /\ Registered(last.user_id)
  /\ last.out.total_users = 3
  /\ last.out.rank = 3
  /\ last.out.percentile = 333

-----------------------------------------------------------------------------
(* Teams: registered users create, join, switch and leave teams and record   *)
(* performances, and the team leaderboard is read                            *)

MaxTeamUsers == 2
MaxTeamTeams == 2
MaxTeamPerfs == 2

TeamLimits == {1, MaxLimit}

TeamsInit ==
  /\ users = BoardUsers(MaxTeamUsers, [u \in 1..MaxTeamUsers |-> NULL_ID])
  /\ teams = << >>
  /\ sports = init_default_sports(<< >>)
  /\ performances = << >>
  /\ last = [op |-> "init_database"]
  /\ Unused

TeamsCreateTeam ==
  \E team_name \in TeamNames, created_by \in 1..Len(users) :
    /\ \/ Len(teams) < MaxTeamTeams
       \/ \E i \in 1..Len(teams) : teams[i].team_name = team_name
    /\ create_team(team_name, created_by)

TeamsJoinTeam ==
  \E user_id \in 1..Len(users), team_id \in {NULL_ID} \cup (1..Len(teams)) :
    join_team(user_id, team_id)

TeamsAddPerformance ==
  /\ Len(performances) < MaxTeamPerfs
  /\ \E user_id \in 1..Len(users), sport_id \in BoardSportIds,
        value \in BoardValues, date_recorded \in Dates :
       add_performance(user_id, sport_id, value, date_recorded)

TeamsGetTeamLeaderboard == \E limit \in TeamLimits : get_team_leaderboard(limit)

NextTeams ==
  \/ TeamsCreateTeam
  \/ TeamsJoinTeam
  \/ TeamsAddPerformance
  \/ TeamsGetTeamLeaderboard

SpecTeams == TeamsInit /\ [][NextTeams]_vars

\* sum of the total points of a set of users
RECURSIVE SumTotals(_)
SumTotals(U) ==
  IF U = {} THEN 0
  ELSE LET u == CHOOSE x \in U : TRUE
       IN  TotalOf(u) + SumTotals(U \ {u})

\* users whose team_id is team_id
HasTeam(team_id) == {u \in 1..Len(users) : users[u].team_id = team_id}

\* the untruncated team leaderboard was read
FullTeamRead == last.op = "get_team_leaderboard" /\ last.limit >= Len(teams)

\* C12: a team is in the team leaderboard iff at least one user has it as
\* team_id, whether or not the members have performances, and its
\* member_count is the number of such users
C12_TeamListedIffHasMember ==
  FullTeamRead =>
     /\ \A k \in 1..Len(last.out) : last.out[k].team_id \in 1..Len(teams)
     /\ \A t \in 1..Len(teams) :
          LET rows == {k \in 1..Len(last.out) : last.out[k].team_id = t}
          IN  /\ Cardinality(rows) = (IF HasTeam(t) = {} THEN 0 ELSE 1)
              /\ \A k \in rows :
                   last.out[k].member_count = Cardinality(HasTeam(t))

\* one team with a single member who has two performances, one team with a
\* member without performances, both listed
C12_Witness ==
  /\ FullTeamRead
  /\ Len(last.out) = 2
  /\ \E a, b \in 1..Len(last.out) :
       /\ last.out[a].member_count = 1
       /\ last.out[a].total_team_activities = 2
       /\ last.out[b].member_count = 1
       /\ last.out[b].total_team_activities = 0

\* C13: in every row of the team leaderboard avg_points_per_member is
\* total_team_points divided by member_count
C13_AveragePerMember ==
  last.op = "get_team_leaderboard" =>
     \A k \in 1..Len(last.out) :
        last.out[k].avg_points_per_member.num * last.out[k].member_count
          = last.out[k].total_team_points * last.out[k].avg_points_per_member.den

\* C14: total_team_points of a team is the sum of the points of all
\* performances of the users whose team_id is now that team
C14_TeamTotalFollowsMembership ==
  last.op = "get_team_leaderboard" =>
     \A k \in 1..Len(last.out) :
        last.out[k].total_team_points = SumTotals(HasTeam(last.out[k].team_id))

\* a listed team whose creator has performances but is not a member of it, and
\* which has points from its members
C14_Witness ==
  /\ last.op = "get_team_leaderboard"
  /\ \E k \in 1..Len(last.out) :
       LET t == last.out[k].team_id
       IN  /\ teams[t].created_by \notin HasTeam(t)
           /\ TotalOf(teams[t].created_by) > 0
           /\ last.out[k].total_team_points > 0

RECURSIVE SumMemberCounts(_, _)
SumMemberCounts(rows, k) ==
  IF k > Len(rows) THEN 0
  ELSE rows[k].member_count + SumMemberCounts(rows, k + 1)

\* C15: every user belongs to at most one team: after join_team the user is
\* a member of the team joined and of no other, and the member counts of the
\* team leaderboard sum to at most the number of users
C15_AtMostOneTeam ==
  /\ \A u \in 1..Len(users) :
       Cardinality({t \in 1..Len(teams) : u \in HasTeam(t)}) <= 1
  /\ (last.op = "join_team" /\ Registered(last.user_id)) =>
       /\ users[last.user_id].team_id = last.team_id
       /\ \A t \in 1..Len(teams) :
            t # last.team_id => last.user_id \notin HasTeam(t)
  /\ FullTeamRead => SumMemberCounts(last.out, 1) <= Len(users)

\* both users are in teams, one of them with two performances, and the
\* member counts add up to the number of users
C15_Witness ==
  /\ FullTeamRead
  /\ Len(performances) = 2
  /\ \A u \in 1..Len(users) : users[u].team_id # NULL_ID
  /\ \E u \in 1..Len(users) : Cardinality(PerfsOfUser(u)) = 2
  /\ SumMemberCounts(last.out, 1) = Len(users)

\* the sport name is the name of a sport of the catalog
NameInCatalog(sport_name) ==
  \E s \in 1..Len(sports) : sports[s].sport_name = sport_name

\* C16: get_sport_leaderboard with a sport_name that is not in the catalog
\* fails with UnknownSport instead of returning a leaderboard
C16_UnknownSportNameRejected ==
  (last.op = "get_sport_leaderboard" /\ ~NameInCatalog(last.sport_name)) =>
     last.error = "UnknownSport"

\* performances of user u in the sport named sport_name
InSport(u, sport_name) ==
  {i \in 1..Len(performances) :
     /\ performances[i].user_id = u
     /\ InCatalog(performances[i].sport_id)
     /\ sports[performances[i].sport_id].sport_name = sport_name}

\* the untruncated leaderboard of a sport was read
FullSportRead == last.op = "get_sport_leaderboard" /\ last.limit >= Len(users)

\* C17: the sport leaderboard of S has exactly one row for every user with a
\* performance in S and none for any other user, and the row aggregates the
\* user's performances in S only
C17_SportBoardOnlyThatSport ==
  FullSportRead =>
     \A u \in 1..Len(users) :
        LET rows == {k \in 1..Len(last.out) :
                       last.out[k].username = users[u].username}
            I == InSport(u, last.sport_name)
        IN  /\ Cardinality(rows) = (IF I = {} THEN 0 ELSE 1)
            /\ \A k \in rows :
                 /\ last.out[k].total_points = SumPoints(I)
                 /\ last.out[k].total_performance = SumValue(I)
                 /\ last.out[k].activity_count = Cardinality(I)

\* the board of Running is read when one user has performances in Running and
\* in another sport and another user has performances in the other sport only
C17_Witness ==
  /\ FullSportRead
  /\ last.sport_name = "Running"
  /\ Len(last.out) = 1
  /\ \E u, v \in 1..Len(users) :
       /\ InSport(u, "Running") # {}
       /\ Cardinality(PerfsOfUser(u)) > Cardinality(InSport(u, "Running"))
       /\ InSport(v, "Running") = {}
       /\ PerfsOfUser(v) # {}

-----------------------------------------------------------------------------
(* Progress: registered users record performances on several days and read   *)
(* their progress snapshot and their personal dashboard                      *)

MaxProgressUsers == 2
MaxProgressPerfs == 3

ProgressDates == {1, 2, 5}

ProgressInit ==
  /\ users = BoardUsers(MaxProgressUsers, [u \in 1..MaxProgressUsers |-> NULL_ID])
  /\ teams = << >>
  /\ sports = init_default_sports(<< >>)
  /\ performances = << >>
  /\ last = [op |-> "init_database"]
  /\ Unused

ProgressAddPerformance ==
  /\ Len(performances) < MaxProgressPerfs
  /\ \E user_id \in 1..Len(users), sport_id \in BoardSportIds,
        value \in BoardValues, date_recorded \in ProgressDates :
       add_performance(user_id, sport_id, value, date_recorded)

ProgressGetUserProgressData ==
  \E user_id \in UserIdInputs : get_user_progress_data(user_id)

ProgressRenderPersonalDashboard ==
  \E user_id \in UserIdInputs : render_personal_dashboard(user_id)

NextProgress ==
  \/ ProgressAddPerformance
  \/ ProgressGetUserProgressData
  \/ ProgressRenderPersonalDashboard

SpecProgress == ProgressInit /\ [][NextProgress]_vars

\* performances of user u recorded on day d
OnDay(u, d) ==
  {i \in 1..Len(performances) :
     performances[i].user_id = u /\ performances[i].date_recorded = d}

\* days on which user u has a performance
ActiveDays(u) ==
  {performances[i].date_recorded : i \in PerfsOfUser(u)}

RECURSIVE SumDailyPoints(_, _)
SumDailyPoints(rows, k) ==
  IF k = 0 THEN 0 ELSE rows[k].daily_points + SumDailyPoints(rows, k - 1)

C19_OneRowPerActiveDate ==
  last.op = "get_user_progress_data" =>
     LET rows == last.out.daily_progress
         u    == last.user_id
     IN  /\ {rows[k].activity_date : k \in 1..Len(rows)} = ActiveDays(u)
         /\ Len(rows) = Cardinality(ActiveDays(u))
         /\ \A k \in 1..Len(rows) :
              /\ rows[k].daily_activities
                   = Cardinality(OnDay(u, rows[k].activity_date))
              /\ rows[k].daily_points = SumPoints(OnDay(u, rows[k].activity_date))
         /\ \A k \in 2..Len(rows) :
              rows[k - 1].activity_date < rows[k].activity_date

\* the user has two performances on one day, and another user has one on a
\* day on which this user has none
C19_Witness ==
  /\ last.op = "get_user_progress_data"
  /\ Len(last.out.daily_progress) = 1
  /\ last.out.daily_progress[1].daily_activities = 2
  /\ \E i \in 1..Len(performances) :
       /\ performances[i].user_id # last.user_id
       /\ performances[i].date_recorded \notin ActiveDays(last.user_id)

\* number of calendar-consecutive days with activity, back from day d
RECURSIVE CalendarRun(_, _)
CalendarRun(days, d) ==
  IF d \notin days THEN 0 ELSE 1 + CalendarRun(days, d - 1)

\* the latest day of a non-empty set of days
LatestDay(days) == CHOOSE d \in days : \A e \in days : e <= d

\* C20: the current streak shown is the number of calendar-consecutive days
\* with a performance, counted back from the latest activity date and stopping
\* at the first day without activity
C20_CurrentStreakIsCalendarRun ==
  (last.op = "render_personal_dashboard"
     /\ last.out.activity_calendar # << >>) =>
     last.out.activity_calendar[1].current_streak
       = CalendarRun(ActiveDays(last.user_id),
                     LatestDay(ActiveDays(last.user_id)))

\* the longest run of calendar-consecutive days in a set of days
LongestCalendarRun(days) ==
  IF days = {} THEN 0
  ELSE LET runs == {CalendarRun(days, d) : d \in days}
       IN  CHOOSE r \in runs : \A q \in runs : q <= r

\* C21: the longest streak shown is the length of the longest run of
\* calendar-consecutive days with a performance, not the number of active days
C21_LongestStreakIsCalendarRun ==
  (last.op = "render_personal_dashboard"
     /\ last.out.activity_calendar # << >>) =>
     last.out.activity_calendar[1].longest_streak
       = LongestCalendarRun(ActiveDays(last.user_id))

-----------------------------------------------------------------------------
(* Weekly: performances around the turn of the year 2024/2025, every         *)
(* aggregation is read and the personal dashboard is rendered                *)

MaxWeeklyUsers == 2
MaxWeeklyPerfs == 2

\* Wed 2024-10-16, Mon 2024-12-30, Wed 2025-01-01, Mon 2025-01-06
WeeklyDates == {290, 365, 367, 372}

\* Mon 2025-01-06 and Tue 2025-01-14
WeeklyTodays == {372, 380}

WeeklySportIds == {1}

WeeksInputs == {1, DashboardWeeks}

WeeklyInit ==
  /\ users = BoardUsers(MaxWeeklyUsers,
                        [u \in 1..MaxWeeklyUsers |-> IF u = 1 THEN 1 ELSE NULL_ID])
  /\ teams = BoardTeams
  /\ sports = init_default_sports(<< >>)
  /\ performances = << >>
  /\ last = [op |-> "init_database"]
  /\ cache = EmptyCache
  /\ session = NewSession
  /\ \E today \in WeeklyTodays : now = (today - 1) * SecondsPerDay

WeeklyAddPerformance ==
  /\ Len(performances) < MaxWeeklyPerfs
  /\ \E user_id \in 1..Len(users), sport_id \in WeeklySportIds,
        value \in BoardValues, date_recorded \in WeeklyDates :
       add_performance(user_id, sport_id, value, date_recorded)

WeeklyGetSportLeaderboard ==
  \E sport_name \in SportNames : get_sport_leaderboard(sport_name, MaxLimit)

WeeklyGetUserProgressData ==
  \E user_id \in UserIdInputs : get_user_progress_data(user_id)

WeeklyGetUserRanking ==
  \E user_id \in UserIdInputs : get_user_ranking(user_id)

WeeklyGetWeeklyProgress ==
  \E user_id \in UserIdInputs, weeks \in WeeksInputs :
    get_weekly_progress(user_id, weeks)

WeeklyRenderPersonalDashboard ==
  \E user_id \in UserIdInputs : render_personal_dashboard(user_id)

NextWeekly ==
  \/ WeeklyAddPerformance
  \/ get_leaderboard_data(MaxLimit)
  \/ get_team_leaderboard(MaxLimit)
  \/ WeeklyGetSportLeaderboard
  \/ WeeklyGetUserProgressData
  \/ WeeklyGetUserRanking
  \/ get_available_sports
  \/ WeeklyGetWeeklyProgress
  \/ WeeklyRenderPersonalDashboard

SpecWeekly == WeeklyInit /\ [][NextWeekly]_vars

AggregationOps ==
  {"get_leaderboard_data", "get_team_leaderboard", "get_sport_leaderboard",
   "get_user_progress_data", "get_user_ranking", "get_available_sports",
   "get_weekly_progress"}

\* C22: no aggregation operation changes the stored users, teams, sports or
\* performances
C22_AggregationsReadOnly ==
  [][last'.op \in AggregationOps =>
       /\ users' = users
       /\ teams' = teams
       /\ sports' = sports
       /\ performances' = performances]_vars

\* a weekly rollup with a one-week window was read while the store holds a
\* performance older than the window
C22_Witness ==
  /\ last.op = "get_weekly_progress"
  /\ Len(performances) = 2
  /\ \E i \in 1..Len(performances) :
       performances[i].date_recorded < WindowStart(last.weeks)
  /\ last.out # << >>

\* the Monday of the ISO week of day d
IsoWeekMonday(d) == d - Weekday(d)

\* performances of user u inside the trailing window of the given weeks
InWindow(u, weeks) ==
  {i \in PerfsOfUser(u) :
     /\ performances[i].date_recorded >= WindowStart(weeks)
     /\ performances[i].date_recorded <= Today}

\* C24: the weekly rollup has one bucket per ISO week (Monday to Sunday, also
\* across a year boundary) in which the user has a performance inside the
\* window, in ascending chronological order, each holding the performances of
\* its ISO week, none empty
C24_BucketsAreIsoWeeks ==
  last.op = "get_weekly_progress" =>
     LET I       == InWindow(last.user_id, last.weeks)
         mondays == Ascending({IsoWeekMonday(performances[i].date_recorded) :
                                 i \in I})
     IN  /\ Len(last.out) = Len(mondays)
         /\ \A k \in 1..Len(mondays) :
              /\ last.out[k].weekly_activities > 0
              /\ last.out[k].weekly_activities =
                   Cardinality({i \in I :
                      IsoWeekMonday(performances[i].date_recorded) = mondays[k]})

\* C28: the weekly section of the personal dashboard of a user is the weekly
\* rollup of that user, so it is not empty when the user has a performance
\* in the last 12 weeks
C28_DashboardWeeklyOfUser ==
  (last.op = "render_personal_dashboard" /\ ~last.out.warning) =>
     /\ last.out.weekly_data = weekly_progress(last.user_id, DashboardWeeks)
     /\ InWindow(last.user_id, DashboardWeeks) # {} => last.out.weekly_data # << >>

-----------------------------------------------------------------------------
(* st.cache_data(ttl=...): the cached calls of the aggregations              *)

\* @st.cache_data(ttl=60) of get_leaderboard_data and @st.cache_data(ttl=300)
\* of get_user_progress_data, in seconds
ttl == [get_leaderboard_data |-> 60, get_user_progress_data |-> 300]

\* an entry can be served while the clock is before its expiry
Live(fn, key) == key \in DOMAIN cache[fn] /\ now < cache[fn][key].expires

\* a call of the decorated function fn with arguments key, whose body would
\* return value: a live entry is returned as it is, otherwise the body runs and
\* its result is stored with the time-to-live of fn
cache_data(fn, key, value) ==
  /\ cache' = IF Live(fn, key) THEN cache
              ELSE [cache EXCEPT ![fn] =
                      [k \in DOMAIN @ \cup {key} |->
                         IF k = key
                         THEN [value     |-> value,
                               stored_at |-> now,
                               expires   |-> now + ttl[fn]]
                         ELSE @[k]]]
  /\ last' = [op |-> fn, error |-> "none", key |-> key,
              hit |-> Live(fn, key),
              out |-> IF Live(fn, key) THEN cache[fn][key].value ELSE value]
  /\ UNCHANGED <<users, teams, sports, performances, now, session>>

cached_get_leaderboard_data(limit) ==
  cache_data("get_leaderboard_data", limit, leaderboard_df(limit))

cached_get_user_progress_data(user_id) ==
  cache_data("get_user_progress_data", user_id,
             [user_stats        |-> user_stats(user_id),
              daily_progress    |-> daily_progress(user_id),
              sport_breakdown   |-> sport_breakdown(user_id),
              recent_activities |-> recent_activities(user_id)])

\* the entries of one function that have not expired at time t
Unexpired(entries, t) ==
  [k \in {j \in DOMAIN entries : t < entries[j].expires} |-> entries[k]]

\* time passes; entries whose time-to-live has elapsed are dropped
tick(seconds) ==
  /\ now' = now + seconds
  /\ cache' = [fn \in DOMAIN cache |-> Unexpired(cache[fn], now + seconds)]
  /\ last' = [op |-> "tick"]
  /\ UNCHANGED <<users, teams, sports, performances, session>>

-----------------------------------------------------------------------------
(* Cache: a user records performances while time passes and the cached       *)
(* leaderboard and progress snapshot are read                                *)

MaxCachePerfs == 2
MaxNow == 360
TickSeconds == 30

MaxCacheUsers == 1

CacheInit ==
  /\ users = BoardUsers(MaxCacheUsers, [u \in 1..MaxCacheUsers |-> NULL_ID])
  /\ teams = << >>
  /\ sports = init_default_sports(<< >>)
  /\ performances = << >>
  /\ last = [op |-> "init_database"]
  /\ Unused

CacheAddPerformance ==
  /\ Len(performances) < MaxCachePerfs
  /\ \E user_id \in 1..Len(users), sport_id \in WeeklySportIds,
        value \in BoardValues, date_recorded \in Dates :
       add_performance(user_id, sport_id, value, date_recorded)

CacheTick ==
  /\ now + TickSeconds <= MaxNow
  /\ tick(TickSeconds)

CacheGetUserProgressData ==
  \E user_id \in 1..Len(users) : cached_get_user_progress_data(user_id)

NextCache ==
  \/ CacheAddPerformance
  \/ CacheTick
  \/ cached_get_leaderboard_data(MaxLimit)
  \/ CacheGetUserProgressData

SpecCache == CacheInit /\ [][NextCache]_vars

CachedOps == DOMAIN ttl

WriteOps ==
  {"init_database", "create_user", "add_performance", "create_team", "join_team"}

\* what the body of the cached function computes from the current store
Recomputed(fn, key) ==
  IF fn = "get_leaderboard_data" THEN leaderboard_df(key)
  ELSE [user_stats        |-> user_stats(key),
        daily_progress    |-> daily_progress(key),
        sport_breakdown   |-> sport_breakdown(key),
        recent_activities |-> recent_activities(key)]

\* C23: a cached result is dropped or replaced only once its time-to-live
\* (60 s for the leaderboard, 300 s for the progress snapshot) has elapsed
\* and never by a write; a read before that returns the cached result, and a
\* read of the same operation and parameters after it returns the aggregate
\* of the store as it is then
C23_CacheExpiresOnlyByTtl ==
  [][/\ last'.op \in WriteOps => cache' = cache
     /\ \A fn \in CachedOps : \A key \in DOMAIN cache[fn] :
          LET e == cache[fn][key]
          IN  /\ e.expires = e.stored_at + (IF fn = "get_leaderboard_data"
                                            THEN 60 ELSE 300)
              /\ (key \notin DOMAIN cache'[fn] \/ cache'[fn][key] # e)
                   => now' >= e.expires
     /\ last'.op \in CachedOps =>
          LET fn  == last'.op
              key == last'.key
          IN  IF key \in DOMAIN cache[fn] /\ now < cache[fn][key].expires
              THEN last'.out = cache[fn][key].value
              ELSE /\ last'.out = Recomputed(fn, key)
                   /\ cache'[fn][key].value = Recomputed(fn, key)]_vars

\* a leaderboard read within the time-to-live, after a performance was
\* recorded, returns the aggregate from before the write
C23_Witness ==
  /\ last.op = "get_leaderboard_data"
  /\ last.hit
  /\ now > cache["get_leaderboard_data"][last.key].stored_at
  /\ last.out # leaderboard_df(last.key)
  /\ "get_user_progress_data" \in {fn \in CachedOps : cache[fn] # << >>}

\* C25: recent_activities holds min(10, n) of the n performances of the
\* user, newest first, and no omitted performance of the user is later than
\* an included one, also when a performance's sport_id is not in the catalog
C25_RecentActivitiesComplete ==
  last.op = "get_user_progress_data" =>
     LET rows == last.out.recent_activities
         I    == PerfsOfUser(last.user_id)
         shown == {rows[k].performance_id : k \in 1..Len(rows)}
     IN  /\ Len(rows) = Min(10, Cardinality(I))
         /\ shown \subseteq I
         /\ \A k \in 2..Len(rows) : rows[k - 1].date >= rows[k].date
         /\ \A i \in I \ shown : \A k \in 1..Len(rows) :
              performances[i].date_recorded <= rows[k].date

\* C26: in the overall leaderboard avg_points_per_activity is null for a user
\* without activities and total_points / total_activities otherwise
C26_AverageNullWithoutActivities ==
  last.op = "get_leaderboard_data" =>
     \A k \in 1..Len(last.out) :
        LET row == last.out[k]
        IN  IF row.total_activities = 0
            THEN row.avg_points_per_activity = NULL
            ELSE /\ row.avg_points_per_activity # NULL
                 /\ row.avg_points_per_activity.v.num * row.total_activities
                      = row.total_points * row.avg_points_per_activity.v.den

\* the leaderboard holds a user without activities and a user with two
\* activities of different points
C26_Witness ==
  /\ last.op = "get_leaderboard_data"
  /\ \E a, b \in 1..Len(last.out) :
       /\ last.out[a].total_activities = 0
       /\ last.out[a].avg_points_per_activity = NULL
       /\ last.out[b].total_activities = 2
       /\ last.out[b].avg_points_per_activity.v.num * 2
            = last.out[b].total_points * last.out[b].avg_points_per_activity.v.den
       /\ \E i, j \in PerfsOfUser(last.out[b].user_id) :
            performances[i].points_calculated # performances[j].points_calculated

\* C27: the rank get_user_ranking returns for a registered user is the rank
\* the user has in the overall leaderboard read with a limit of at least the
\* number of users
C27_RankingAgreesWithLeaderboard ==
  (last.op = "get_user_ranking" /\ Registered(last.user_id)) =>
     LET board == leaderboard_df(Len(users))
     IN  \A k \in 1..Len(board) :
            board[k].user_id = last.user_id => board[k].rank = last.out.rank

-----------------------------------------------------------------------------
(* SessionManager (src/utils/session_manager.py) and the Team Management and *)
(* Dashboard pages of src/main.py                                            *)

\* element i of a Python tuple (indices start at 0)
Item(t, i) == t[i + 1]

\* the truth value Python gives a nullable column; the falsy values '' and 0
\* are never stored in such a column
Truthy(x) == ~x.null

\* SELECT u.*, t.team_name FROM users u LEFT JOIN teams t ... WHERE
\* u.user_id = ?; fetchone() gives None when there is no row
get_user_by_id(usrs, tms, user_id) ==
  IF user_id \notin 1..Len(usrs) THEN NULL
  ELSE LET u == usrs[user_id]
       IN  Val(<< user_id, u.username, u.password_hash, u.full_name, u.email,
                  u.gender, u.age_group, u.location,
                  IF u.team_id = NULL_ID THEN NULL ELSE Val(u.team_id),
                  u.created_at, u.updated_at,
                  IF u.team_id \in 1..Len(tms)
                  THEN Val(tms[u.team_id].team_name) ELSE NULL >>)

\* SELECT user_id, password_hash FROM users WHERE username = ?
authenticate_user(username, password) ==
  LET result == {i \in 1..Len(users) : users[i].username = username}
  IN  IF \E i \in result : verify_password(password, users[i].password_hash)
      THEN Val(CHOOSE i \in result : TRUE)
      ELSE NULL

\* st.session_state after refresh_user_data on the tables usrs, tms
Refreshed(sess, usrs, tms) ==
  IF Truthy(sess.user_id)
  THEN [sess EXCEPT !.user_data = get_user_by_id(usrs, tms, sess.user_id.v)]
  ELSE sess

\* variant: the typed username is stored before the credentials are checked
login_storing_username_first(username, password) ==
  LET user_id == authenticate_user(username, password)
  IN  /\ session' = IF Truthy(user_id)
                    THEN Refreshed([session EXCEPT !.logged_in = TRUE,
                                                   !.user_id   = user_id,
                                                   !.username  = Val(username)],
                                   users, teams)
                    ELSE [session EXCEPT !.username = Val(username)]
      /\ last' = [op |-> "login", error |-> "none", out |-> Truthy(user_id)]
      /\ UNCHANGED <<users, teams, sports, performances, cache, now>>

login(username, password) ==
  LET user_id == authenticate_user(username, password)
  IN  /\ session' = IF Truthy(user_id)
                    THEN Refreshed([session EXCEPT !.logged_in = TRUE,
                                                   !.user_id   = user_id,
                                                   !.username  = Val(username)],
                                   users, teams)
                    ELSE session
      /\ last' = [op |-> "login", error |-> "none", out |-> Truthy(user_id)]
      /\ UNCHANGED <<users, teams, sports, performances, cache, now>>

logout ==
  /\ session' = [logged_in |-> FALSE, user_id |-> NULL, username |-> NULL,
                 user_data |-> NULL]
  /\ last' = [op |-> "logout", error |-> "none"]
  /\ UNCHANGED <<users, teams, sports, performances, cache, now>>

refresh_user_data ==
  /\ session' = Refreshed(session, users, teams)
  /\ last' = [op |-> "refresh_user_data", error |-> "none"]
  /\ UNCHANGED <<users, teams, sports, performances, cache, now>>

\* register_user returns the new user_id, or None when create_user raises
register_user(form) ==
  IF \E i \in 1..Len(users) :
       \/ users[i].username = form.username
       \/ users[i].email = form.email
  THEN /\ last' = [op |-> "register_user", error |-> "none", out |-> NULL]
       /\ UNCHANGED <<users, teams, sports, performances, cache, now, session>>
  ELSE /\ users' = Append(users, [username      |-> form.username,
                                  password_hash |-> hash_password(form.password),
                                  full_name     |-> form.full_name,
                                  email         |-> form.email,
                                  gender        |-> form.gender,
                                  age_group     |-> form.age_group,
                                  location      |-> form.location,
                                  team_id       |-> NULL_ID,
                                  created_at    |-> now,
                                  updated_at    |-> now])
       /\ last' = [op |-> "register_user", error |-> "none",
                   out |-> Val(Len(users) + 1)]
       /\ UNCHANGED <<teams, sports, performances, cache, now, session>>

\* the users table after join_team(user_id, team_id)
UsersAfterJoin(user_id, team_id) ==
  [i \in 1..Len(users) |->
     IF i = user_id
     THEN [users[i] EXCEPT !.team_id = team_id, !.updated_at = now]
     ELSE users[i]]

\* show_team_management: the status lines of the page; 'Leave Team' is
\* rendered under the same condition as the membership line
team_page(user_data) ==
  [member       |-> Truthy(Item(user_data, 6)),
   leave_button |-> Truthy(Item(user_data, 6)),
   team_shown   |-> Item(user_data, 7)]

\* show_dashboard: the Team metric
dashboard_team(user_data) ==
  IF Truthy(Item(user_data, 7)) THEN Item(user_data, 7) ELSE Val("No team")

show_team_management ==
  /\ session.logged_in
  /\ last' = [op |-> "show_team_management", error |-> "none",
              out |-> [page      |-> team_page(session.user_data.v),
                       dashboard |-> dashboard_team(session.user_data.v)]]
  /\ UNCHANGED <<users, teams, sports, performances, cache, now, session>>

\* the 'Leave Team' button
leave_team_button ==
  /\ session.logged_in
  /\ team_page(session.user_data.v).leave_button
  /\ users' = UsersAfterJoin(session.user_id.v, NULL_ID)
  /\ session' = Refreshed(session, users', teams)
  /\ last' = [op |-> "leave_team", error |-> "none"]
  /\ UNCHANGED <<teams, sports, performances, cache, now>>

\* the 'Create Team' form: create_team, then join_team of the new team; a
\* duplicate name raises and nothing is written
create_team_form(team_name) ==
  /\ session.logged_in
  /\ IF \E i \in 1..Len(teams) : teams[i].team_name = team_name
     THEN /\ last' = [op |-> "create_team_form", error |-> "Team name already exists"]
          /\ UNCHANGED <<users, teams, session>>
     ELSE /\ teams' = Append(teams, [team_name  |-> team_name,
                                     created_by |-> session.user_id.v])
          /\ users' = UsersAfterJoin(session.user_id.v, Len(teams) + 1)
          /\ session' = Refreshed(session, users', teams')
          /\ last' = [op |-> "create_team_form", error |-> "none"]
  /\ UNCHANGED <<sports, performances, cache, now>>

\* the 'Join Team' button for a team of get_all_teams
join_team_button(team_id) ==
  /\ session.logged_in
  /\ team_id \in 1..Len(teams)
  /\ users' = UsersAfterJoin(session.user_id.v, team_id)
  /\ session' = Refreshed(session, users', teams)
  /\ last' = [op |-> "join_team_button", error |-> "none"]
  /\ UNCHANGED <<teams, sports, performances, cache, now>>

-----------------------------------------------------------------------------
(* Session: one browser session registers users, logs in and out and uses    *)
(* the Team Management page                                                  *)

MaxSessionUsers == 2
MaxSessionTeams == 2

\* registration forms: with and without age group and location, and one
\* whose username is taken
SessionForms ==
  { [username |-> "amy", email |-> "amy@x", password |-> "pw1", full_name |-> "A",
     gender |-> Val("Female"), age_group |-> Val("18-25"), location |-> Val("Oslo")],
    [username |-> "bob", email |-> "bob@x", password |-> "pw2", full_name |-> "B",
     gender |-> NULL, age_group |-> NULL, location |-> NULL],
    [username |-> "amy", email |-> "ann@x", password |-> "pw2", full_name |-> "A",
     gender |-> NULL, age_group |-> NULL, location |-> NULL] }

LoginNames == {"amy", "bob"}

LoginPasswords == {"pw1", "pw2"}

SessionInit ==
  /\ users = << >>
  /\ teams = << >>
  /\ sports = init_default_sports(<< >>)
  /\ performances = << >>
  /\ last = [op |-> "init_database"]
  /\ Unused

SessionRegisterUser ==
  \E form \in SessionForms :
    /\ \/ Len(users) < MaxSessionUsers
       \/ \E i \in 1..Len(users) :
            users[i].username = form.username \/ users[i].email = form.email
    /\ register_user(form)

SessionLogin ==
  \E username \in LoginNames, password \in LoginPasswords :
    login(username, password)

SessionCreateTeam ==
  \E team_name \in TeamNames :
    /\ \/ Len(teams) < MaxSessionTeams
       \/ \E i \in 1..Len(teams) : teams[i].team_name = team_name
    /\ create_team_form(team_name)

SessionJoinTeam == \E team_id \in 1..Len(teams) : join_team_button(team_id)

NextSession ==
  \/ SessionRegisterUser
  \/ SessionLogin
  \/ logout
  \/ refresh_user_data
  \/ show_team_management
  \/ leave_team_button
  \/ SessionCreateTeam
  \/ SessionJoinTeam

SpecSession == SessionInit /\ [][NextSession]_vars

\* the session is logged in exactly when it has a user_id, and then it holds
\* the username and the record of the stored user
SessionConsistent ==
  /\ session.logged_in <=> ~session.user_id.null
  /\ session.logged_in =>
       /\ Registered(session.user_id.v)
       /\ session.username = Val(users[session.user_id.v].username)
       /\ session.user_data = get_user_by_id(users, teams, session.user_id.v)
  /\ ~session.logged_in => (session.username = NULL /\ session.user_data = NULL)

\* C29: logged_in holds iff user_id is set, and then username and user_data
\* are those of the stored user; a failed login leaves the session unchanged
\* and logout resets it to (False, None, None, None)
C29_SessionFollowsStore ==
  /\ []SessionConsistent
  /\ [][/\ (last'.op = "login" /\ ~last'.out) => session' = session
        /\ last'.op = "logout" =>
             session' = [logged_in |-> FALSE, user_id |-> NULL,
                         username |-> NULL, user_data |-> NULL]]_vars

\* a login with a wrong password while the second user is logged in and in a
\* team
C29_Witness ==
  /\ last.op = "login"
  /\ ~last.out
  /\ session.logged_in
  /\ session.user_id = Val(2)
  /\ users[2].team_id # NULL_ID

\* C30: the Team Management page reports membership and offers 'Leave Team'
\* exactly when the stored team_id of the user is not null, and the team name
\* it and the dashboard show is the name of that team
C30_TeamPageShowsStoredTeam ==
  last.op = "show_team_management" =>
     LET u == users[session.user_id.v]
     IN  /\ last.out.page.member <=> u.team_id # NULL_ID
         /\ last.out.page.leave_button <=> u.team_id # NULL_ID
         /\ u.team_id # NULL_ID =>
              /\ last.out.page.team_shown = Val(teams[u.team_id].team_name)
              /\ last.out.dashboard = Val(teams[u.team_id].team_name)

====
